---- MODULE Spec2Model ----
(***************************************************************************)
(* Model of the credit-card statement parser (src/parser.py) and of the    *)
(* upload handler of its Streamlit front end (src/app.py).                 *)
(*                                                                         *)
(* A Python str is modelled as a sequence of characters, so that           *)
(* regular-expression matching, str.strip, str.lower, str.replace and      *)
(* float() are computed character by character.  A printable ASCII         *)
(* character, and each of \t, \n, \r and \f, is the string of that        *)
(* character; any other code point is the string "<U+XXXX>" of its         *)
(* hexadecimal number.  A float is modelled as the decimal it is parsed    *)
(* from, [neg, digits, e, exact] standing for +-digits / 10^e, normalised  *)
(* so that equal numbers of equal sign are equal records; exact is FALSE   *)
(* for a decimal of more digits than a double holds, whose rounding is     *)
(* not computed.  None and "" are both the empty sequence (the code only   *)
(* ever tests cells for truthiness).                                       *)
(***************************************************************************)
EXTENDS Integers, Sequences, FiniteSets, TLC

(***************************************************************************)
(* Characters and character classes                                        *)
(***************************************************************************)
HexDigits == <<"0","1","2","3","4","5","6","7","8","9","A","B","C","D","E","F">>

\* n in hexadecimal, of at least the given number of digits
RECURSIVE Hex(_, _)
Hex(n, width) ==
    IF n = 0 /\ width <= 0 THEN ""
    ELSE Hex(n \div 16, width - 1) \o HexDigits[(n % 16) + 1]

\* the character of a code point outside printable ASCII
CodePoint(n) == "<U+" \o Hex(n, 4) \o ">"

AsciiDigits == <<"0", "1", "2", "3", "4", "5", "6", "7", "8", "9">>

\* the decimal digits of Unicode (category Nd), which \d matches and float()
\* reads, are the digits 0 to 9 of each script at ten consecutive code
\* points: the code point of the digit zero of every script but ASCII
DigitZeros ==
    << 1632, 1776, 1984, 2406, 2534, 2662, 2790, 2918, 3046, 3174,
       3302, 3430, 3558, 3664, 3792, 3872, 4160, 4240, 6112, 6160,
       6470, 6608, 6784, 6800, 6992, 7088, 7232, 7248, 42528, 43216,
       43264, 43472, 43504, 43600, 44016, 65296, 66720, 68912, 69734, 69872,
       69942, 70096, 70384, 70736, 70864, 71248, 71360, 71472, 71904, 72016,
       72784, 73040, 73120, 92768, 92864, 93008, 120782, 120792, 120802, 120812,
       120822, 123200, 123632, 125264, 130032 >>

\* one row per script, the digits 0 to 9 in order
DigitBlocks ==
    <<AsciiDigits>> \o
    [b \in 1..Len(DigitZeros) |-> [k \in 1..10 |-> CodePoint(DigitZeros[b] + k - 1)]]

Digits == UNION {{DigitBlocks[b][k] : k \in 1..10} : b \in 1..Len(DigitBlocks)}

\* the value of a digit, 0 to 9
DigitMap ==
    [c \in Digits |->
        CHOOSE v \in 0..9 : \E b \in 1..Len(DigitBlocks) : DigitBlocks[b][v + 1] = c]

\* the characters for which str.isspace() holds, which are those \s matches
Spaces ==
    { "\t", "\n", "<U+000B>", "\f", "\r", "<U+001C>",
      "<U+001D>", "<U+001E>", "<U+001F>", " ", "<U+0085>", "<U+00A0>",
      "<U+1680>", "<U+2000>", "<U+2001>", "<U+2002>", "<U+2003>", "<U+2004>",
      "<U+2005>", "<U+2006>", "<U+2007>", "<U+2008>", "<U+2009>", "<U+200A>",
      "<U+2028>", "<U+2029>", "<U+202F>", "<U+205F>", "<U+3000>" }

UpperCase == <<"A","B","C","D","E","F","G","H","I","J","K","L","M",
               "N","O","P","Q","R","S","T","U","V","W","X","Y","Z">>

LowerCase == <<"a","b","c","d","e","f","g","h","i","j","k","l","m",
               "n","o","p","q","r","s","t","u","v","w","x","y","z">>

UpperSet == {UpperCase[k] : k \in 1..26}

LowerMap == [c \in UpperSet |-> LowerCase[CHOOSE k \in 1..26 : UpperCase[k] = c]]

\* the characters beyond A-Z that re.IGNORECASE lets match a letter of the
\* patterns: dotted capital I and dotless i match i, long s matches s, the
\* Kelvin sign matches k
FoldMap ==
    [c \in {"<U+0130>", "<U+0131>", "<U+017F>", "<U+212A>"} |->
        CASE c = "<U+0130>" -> "i"
          [] c = "<U+0131>" -> "i"
          [] c = "<U+017F>" -> "s"
          [] c = "<U+212A>" -> "k"]

\* re.IGNORECASE: the lower-case ASCII letter a character of the text matches
FoldChar(c) ==
    IF c \in UpperSet THEN LowerMap[c]
    ELSE IF c \in DOMAIN FoldMap THEN FoldMap[c]
    ELSE c

\* str.lower() of one character as far as it yields an ASCII letter: A-Z and
\* the Kelvin sign
LowerChar(c) ==
    IF c \in UpperSet THEN LowerMap[c]
    ELSE IF c = "<U+212A>" THEN "k"
    ELSE c

\* \d
IsDigit(c) == c \in Digits

\* \s, and the characters str.strip() removes
IsSpace(c) == c \in Spaces

\* [:\s]
IsSep(c) == c = ":" \/ IsSpace(c)

\* [\d,]
IsDigitOrComma(c) == IsDigit(c) \/ c = ","

\* [^-\n]
NotHyphenNewline(c) == c # "-" /\ c # "\n"

\* [\d.,\-], the characters re.sub(r'[^\d.,\-]', '', amount) keeps
IsAmountChar(c) == IsDigit(c) \/ c \in {".", ",", "-"}

\* the character at index k, or "" past either end of the text
CharAt(text, k) == IF k \in 1..Len(text) THEN text[k] ELSE ""

Min(S) == CHOOSE x \in S : \A y \in S : x <= y

Max(S) == CHOOSE x \in S : \A y \in S : x >= y

\* membership of a character in a character class of the patterns
InClass(c, class) ==
    CASE class = "\\s"      -> IsSpace(c)
      [] class = "[:\\s]"   -> IsSep(c)
      [] class = "\\d"      -> IsDigit(c)
      [] class = "[\\d,]"   -> IsDigitOrComma(c)
      [] class = "[^-\\n]"  -> NotHyphenNewline(c)

\* index just past the longest run of characters of the class that starts at i
RunEnd(text, i, class) ==
    IF i > Len(text) THEN i
    ELSE CHOOSE k \in i..(Len(text) + 1) :
            \A x \in i..k : (x < k) = (x <= Len(text) /\ InClass(text[x], class))

\* a literal of the pattern (given in lower case) matches at i, ignoring case
LitAt(text, i, lit) ==
    /\ i >= 1
    /\ i + Len(lit) - 1 <= Len(text)
    /\ FoldChar(text[i]) = lit[1]
    /\ \A k \in 2..Len(lit) : FoldChar(text[i + k - 1]) = lit[k]

\* str.lower()
\* dotted capital I becomes i followed by a combining dot
RECURSIVE Lower(_)
Lower(s) ==
    LET dotted == {k \in 1..Len(s) : s[k] = "<U+0130>"}
    IN  IF dotted = {} THEN [k \in 1..Len(s) |-> LowerChar(s[k])]
        ELSE Lower(SubSeq(s, 1, Min(dotted) - 1)) \o <<"i", "<U+0307>">>
                \o Lower(SubSeq(s, Min(dotted) + 1, Len(s)))

\* str.strip()
Strip(s) ==
    LET keep == {k \in 1..Len(s) : ~IsSpace(s[k])}
    IN  IF keep = {} THEN <<>> ELSE SubSeq(s, Min(keep), Max(keep))

\* str.replace(',', '')
RemoveCommas(s) == SelectSeq(s, LAMBDA c : c # ",")

\* a clean-up that keeps a minus sign only in front of the amount
amount_clean_leading_minus(s) ==
    LET kept == SelectSeq(s, IsAmountChar)
    IN  IF kept = <<>> THEN <<>>
        ELSE <<kept[1]>> \o SelectSeq(Tail(kept), LAMBDA c : c # "-")

\* re.sub(r'[^\d.,\-]', '', amount)
amount_clean(s) == SelectSeq(s, IsAmountChar)

NoMatch == [found |-> FALSE, group1 |-> <<>>, group2 |-> <<>>]

(***************************************************************************)
(* float(): the argument only ever holds digits, "." and "-" here          *)
(***************************************************************************)
DigitVal(c) == DigitMap[c]

\* the ASCII digit of the same value, as float() reads any decimal digit
AsciiDigit(c) == DigitBlocks[1][DigitVal(c) + 1]

\* drop the leading zeros of an integer part
RECURSIVE StripZeros(_)
StripZeros(ds) == IF ds # <<>> /\ ds[1] = "0" THEN StripZeros(Tail(ds)) ELSE ds

\* drop the trailing zeros of a fractional part
RECURSIVE TrimZeros(_)
TrimZeros(ds) ==
    IF ds # <<>> /\ ds[Len(ds)] = "0" THEN TrimZeros(SubSeq(ds, 1, Len(ds) - 1))
    ELSE ds

\* a double holds every decimal of up to DBL_DIG significant digits, and of
\* magnitude at least 10^-DBL_MIN_10_EXP, so that it reads back as written
DBL_DIG == 15

DBL_MIN_10_EXP == 307

\* the double of the decimal +-digits / 10^e
Decimal(neg, digits, e) == [neg |-> neg, digits |-> digits, e |-> e, exact |-> TRUE]

Zero == Decimal(FALSE, <<>>, 0)

ValueError == [ok |-> FALSE, val |-> Zero]

\* float(s): ok is FALSE where float() raises ValueError; the value is the
\* decimal +-digits / 10^e (float("-0") is -0.0, which == 0.0); of a decimal
\* a double does not hold exactly only the sign is kept
ParseFloat(s) ==
    LET neg  == s # <<>> /\ s[1] = "-"
        body == IF neg THEN Tail(s) ELSE s
        dots == {k \in 1..Len(body) : body[k] = "."}
        ip   == IF dots = {} THEN body ELSE SubSeq(body, 1, Min(dots) - 1)
        fp   == IF dots = {} THEN <<>> ELSE SubSeq(body, Min(dots) + 1, Len(body))
        int  == StripZeros([k \in 1..Len(ip) |-> AsciiDigit(ip[k])])
        frac == TrimZeros([k \in 1..Len(fp) |-> AsciiDigit(fp[k])])
        sig  == StripZeros(int \o frac)
    IN  IF /\ Cardinality(dots) <= 1
           /\ \A k \in 1..Len(ip) : IsDigit(ip[k])
           /\ \A k \in 1..Len(fp) : IsDigit(fp[k])
           /\ Len(ip) + Len(fp) >= 1
        THEN [ok |-> TRUE,
              val |-> IF Len(sig) <= DBL_DIG /\ Len(frac) <= DBL_MIN_10_EXP
                      THEN Decimal(neg, sig, Len(frac))
                      ELSE [neg |-> neg, digits |-> <<>>, e |-> 0, exact |-> FALSE]]
        ELSE ValueError

(***************************************************************************)
(* The four kinds of pattern, matched at one position of the text          *)
(***************************************************************************)
\* <literal>(\d{4}) at position i
CardAt(text, i, lit) ==
    LET j == i + Len(lit)
    IN  IF /\ LitAt(text, i, lit)
           /\ \A k \in j..(j + 3) : IsDigit(CharAt(text, k))
        THEN [found |-> TRUE, group1 |-> SubSeq(text, j, j + 3), group2 |-> <<>>]
        ELSE NoMatch

\* -\s*([^-\n]+) with the hyphen at h: the greedy \s* gives characters back
\* until a character of [^-\n] follows it; 0 when no choice matches
Group2Start(text, h) ==
    LET wsEnd == RunEnd(text, h + 1, "\\s")
        cands == {b \in (h + 1)..wsEnd :
                     CharAt(text, b) # "" /\ NotHyphenNewline(text[b])}
    IN  IF CharAt(text, h) = "-" /\ cands # {} THEN Max(cands) ELSE 0

\* ([^-\n]+?)\s*-\s*([^-\n]+) with group 1 being text[p..p+g-1]
CycleSolution(text, p, g) ==
    /\ g >= 1
    /\ p + g - 1 <= Len(text)
    /\ \A k \in p..(p + g - 1) : NotHyphenNewline(text[k])
    /\ Group2Start(text, RunEnd(text, p + g, "\\s")) # 0

\* <literal>[:\s]+([^-\n]+?)\s*-\s*([^-\n]+) at position i: the greedy
\* [:\s]+ is tried longest first, the lazy group 1 shortest first
CycleAt(text, i, lit) ==
    LET j     == i + Len(lit)
        sepE  == RunEnd(text, j, "[:\\s]")
        ps    == {p \in (j + 1)..sepE :
                     \E g \in 1..Len(text) : CycleSolution(text, p, g)}
        p     == Max(ps)
        g     == Min({x \in 1..Len(text) : CycleSolution(text, p, x)})
        b     == Group2Start(text, RunEnd(text, p + g, "\\s"))
    IN  IF LitAt(text, i, lit) /\ ps # {}
        THEN [found |-> TRUE,
              group1 |-> SubSeq(text, p, p + g - 1),
              group2 |-> SubSeq(text, b, RunEnd(text, b, "[^-\\n]") - 1)]
        ELSE NoMatch

\* \d{1,2}/ at k: the index just past the slash, 0 when it does not match
DayOrMonth(text, k) ==
    IF IsDigit(CharAt(text, k)) /\ IsDigit(CharAt(text, k + 1))
       /\ CharAt(text, k + 2) = "/"
    THEN k + 3
    ELSE IF IsDigit(CharAt(text, k)) /\ CharAt(text, k + 1) = "/"
         THEN k + 2
         ELSE 0

\* <literal>[:\s]+(\d{1,2}/\d{1,2}/\d{4}) at position i
DueAt(text, i, lit) ==
    LET j == i + Len(lit)
        k == RunEnd(text, j, "[:\\s]")
        a == DayOrMonth(text, k)
        b == DayOrMonth(text, a)
    IN  IF /\ LitAt(text, i, lit)
           /\ k > j
           /\ a # 0
           /\ b # 0
           /\ \A y \in b..(b + 3) : IsDigit(CharAt(text, y))
        THEN [found |-> TRUE, group1 |-> SubSeq(text, k, b + 3), group2 |-> <<>>]
        ELSE NoMatch

\* a variant of the balance pattern whose group admits a sign,
\* <literal>[:\s]+\$?(-?[\d,]+\.?\d*), which the source does not use
BalanceAt_signed(text, i, lit) ==
    LET j  == i + Len(lit)
        k  == RunEnd(text, j, "[:\\s]")
        s  == IF CharAt(text, k) = "$" THEN k + 1 ELSE k
        g  == IF CharAt(text, s) = "-" THEN s + 1 ELSE s
        n  == RunEnd(text, g, "[\\d,]")
        d  == IF CharAt(text, n) = "." THEN n + 1 ELSE n
        e  == RunEnd(text, d, "\\d")
    IN  IF LitAt(text, i, lit) /\ k > j /\ n > g
        THEN [found |-> TRUE, group1 |-> SubSeq(text, s, e - 1), group2 |-> <<>>]
        ELSE NoMatch

\* <literal>[:\s]+\$?([\d,]+\.?\d*) at position i
BalanceAt(text, i, lit) ==
    LET j  == i + Len(lit)
        k  == RunEnd(text, j, "[:\\s]")
        s  == IF CharAt(text, k) = "$" THEN k + 1 ELSE k
        n  == RunEnd(text, s, "[\\d,]")
        d  == IF CharAt(text, n) = "." THEN n + 1 ELSE n
        e  == RunEnd(text, d, "\\d")
    IN  IF LitAt(text, i, lit) /\ k > j /\ n > s
        THEN [found |-> TRUE, group1 |-> SubSeq(text, s, e - 1), group2 |-> <<>>]
        ELSE NoMatch

(***************************************************************************)
(* re.search: the leftmost position at which the pattern matches           *)
(***************************************************************************)
\* the pattern of the given kind with the given literal, matched at i
MatchAt(kind, text, i, lit) ==
    CASE kind = "card"    -> CardAt(text, i, lit)
      [] kind = "cycle"   -> CycleAt(text, i, lit)
      [] kind = "due"     -> DueAt(text, i, lit)
      [] kind = "balance" -> BalanceAt(text, i, lit)

FirstMatch(text, lit, kind) ==
    LET starts == {i \in 1..Len(text) : LitAt(text, i, lit)}
        hits   == {i \in starts : MatchAt(kind, text, i, lit).found}
    IN  IF hits = {} THEN NoMatch ELSE MatchAt(kind, text, Min(hits), lit)

(***************************************************************************)
(* _extract_card_last_4                                                    *)
(***************************************************************************)
card_patterns ==
    << <<"*","*","*","*">>,
       <<"e","n","d","i","n","g"," ","i","n"," ">>,
       <<"c","a","r","d"," ","e","n","d","i","n","g"," ">>,
       <<"a","c","c","o","u","n","t"," ","e","n","d","i","n","g"," ">> >>

\* a loop that visits the patterns last to first
ReversedOrder(n) == [k \in 1..n |-> n + 1 - k]

\* the order in which the loop visits the patterns
PatternOrder(n) == [k \in 1..n |-> k]

RECURSIVE card_loop(_, _)
card_loop(text, order) ==
    IF order = <<>> THEN <<>>
    ELSE LET match == FirstMatch(text, card_patterns[Head(order)], "card")
         IN  IF match.found THEN match.group1
             ELSE card_loop(text, Tail(order))

extract_card_last_4(text) == card_loop(text, PatternOrder(Len(card_patterns)))

(***************************************************************************)
(* _extract_billing_cycle                                                  *)
(***************************************************************************)
billing_patterns ==
    << <<"s","t","a","t","e","m","e","n","t"," ","p","e","r","i","o","d">>,
       <<"b","i","l","l","i","n","g"," ","p","e","r","i","o","d">>,
       <<"p","e","r","i","o","d">> >>

RECURSIVE billing_loop(_, _)
billing_loop(text, order) ==
    IF order = <<>> THEN <<>>
    ELSE LET match == FirstMatch(text, billing_patterns[Head(order)], "cycle")
         IN  IF match.found
             THEN Strip(match.group1) \o <<" ", "-", " ">> \o Strip(match.group2)
             ELSE billing_loop(text, Tail(order))

extract_billing_cycle(text) ==
    billing_loop(text, PatternOrder(Len(billing_patterns)))

(***************************************************************************)
(* _extract_due_date                                                       *)
(***************************************************************************)
due_patterns ==
    << <<"d","u","e"," ","d","a","t","e">>,
       <<"p","a","y","m","e","n","t"," ","d","u","e">>,
       <<"d","u","e">> >>

RECURSIVE due_loop(_, _)
due_loop(text, order) ==
    IF order = <<>> THEN <<>>
    ELSE LET match == FirstMatch(text, due_patterns[Head(order)], "due")
         IN  IF match.found THEN match.group1
             ELSE due_loop(text, Tail(order))

extract_due_date(text) == due_loop(text, PatternOrder(Len(due_patterns)))

(***************************************************************************)
(* _extract_total_balance                                                  *)
(***************************************************************************)
balance_patterns ==
    << <<"t","o","t","a","l"," ","b","a","l","a","n","c","e">>,
       <<"c","u","r","r","e","n","t"," ","b","a","l","a","n","c","e">>,
       <<"b","a","l","a","n","c","e">> >>

RECURSIVE balance_loop(_, _)
balance_loop(text, order) ==
    IF order = <<>> THEN Zero
    ELSE LET match  == FirstMatch(text, balance_patterns[Head(order)], "balance")
             parsed == ParseFloat(RemoveCommas(match.group1))
         IN  IF match.found /\ parsed.ok THEN parsed.val
             ELSE balance_loop(text, Tail(order))

extract_total_balance(text) ==
    balance_loop(text, PatternOrder(Len(balance_patterns)))

(***************************************************************************)
(* _extract_transactions: the loops over the tables of the first page      *)
(***************************************************************************)
date_headers ==
    { <<"d","a","t","e">>,
      <<"t","r","a","n","s","a","c","t","i","o","n"," ","d","a","t","e">>,
      <<>> }

description_headers ==
    { <<"d","e","s","c","r","i","p","t","i","o","n">>,
      <<"m","e","r","c","h","a","n","t">>,
      <<>> }

amount_headers == { <<"a","m","o","u","n","t">>, <<>> }

Skip == [emit |-> FALSE, txn |-> <<>>]

\* a row body that compares the cells with the header names as they are
process_row_case_sensitive(row) ==
    IF Len(row) < 3 THEN Skip
    ELSE LET date         == Strip(row[1])
             description  == Strip(row[2])
             amount       == Strip(row[3])
             amount_float == ParseFloat(RemoveCommas(amount_clean(amount)))
         IN  IF \/ date \in date_headers
                \/ description \in description_headers
                \/ amount \in amount_headers
             THEN Skip
             ELSE IF ~amount_float.ok
             THEN Skip
             ELSE [emit |-> TRUE,
                   txn  |-> [Date |-> date, Description |-> description,
                             Amount |-> amount_float.val]]

\* the body of "for row in table": the transaction the row appends, if any
process_row(row) ==
    IF Len(row) < 3 THEN Skip
    ELSE LET date         == Strip(row[1])
             description  == Strip(row[2])
             amount       == Strip(row[3])
             amount_float == ParseFloat(RemoveCommas(amount_clean(amount)))
         IN  IF \/ Lower(date) \in date_headers
                \/ Lower(description) \in description_headers
                \/ Lower(amount) \in amount_headers
             THEN Skip
             ELSE IF date = <<>> \/ description = <<>> \/ amount = <<>>
             THEN Skip
             ELSE IF ~amount_float.ok
             THEN Skip
             ELSE [emit |-> TRUE,
                   txn  |-> [Date |-> date, Description |-> description,
                             Amount |-> amount_float.val]]

\* a row loop that a non-numeric amount ends
RECURSIVE row_loop_abort(_, _, _)
row_loop_abort(table, r, transactions) ==
    IF r > Len(table) THEN transactions
    ELSE LET step == process_row(table[r])
             bad  == /\ Len(table[r]) >= 3
                     /\ ~ParseFloat(RemoveCommas(amount_clean(Strip(table[r][3])))).ok
         IN  IF bad THEN transactions
             ELSE row_loop_abort(table, r + 1,
                                 IF step.emit THEN Append(transactions, step.txn)
                                 ELSE transactions)

\* "for row in table", from row r on, appending to transactions
RECURSIVE row_loop(_, _, _)
row_loop(table, r, transactions) ==
    IF r > Len(table) THEN transactions
    ELSE LET step == process_row(table[r])
         IN  row_loop(table, r + 1,
                      IF step.emit THEN Append(transactions, step.txn)
                      ELSE transactions)

\* "for table in tables", from table t on
RECURSIVE table_loop(_, _, _)
table_loop(tables, t, transactions) ==
    IF t > Len(tables) THEN transactions
    ELSE table_loop(tables, t + 1,
                    IF Len(tables[t]) < 2 THEN transactions
                    ELSE row_loop(tables[t], 1, transactions))

\* the transactions of one page's tables, starting from the empty list
page_transactions(tables) == table_loop(tables, 1, <<>>)

(***************************************************************************)
(* _extract_text_from_pdf: the loop over the pages                         *)
(***************************************************************************)
RECURSIVE text_loop(_, _, _)
text_loop(pages, n, text) ==
    IF n > Len(pages) THEN text
    ELSE text_loop(pages, n + 1,
                   IF pages[n].text # <<>> THEN text \o pages[n].text \o <<"\n">>
                   ELSE text)

(***************************************************************************)
(* Files.  A file is missing, a PDF with its pages, or anything else.      *)
(* A page is [text, tables]: what extract_text() and extract_tables()      *)
(* give for it; a table is a sequence of rows, a row a sequence of cells.  *)
(***************************************************************************)
NoFile == [kind |-> "missing", pages |-> <<>>]

NotPdf == [kind |-> "other", pages |-> <<>>]

Pdf(pages) == [kind |-> "pdf", pages |-> pages]

Page(text, tables) == [text |-> text, tables |-> tables]

\* the sample file of the command-line entry point, and a second statement
SamplePath == "statements/chase_sample.pdf"

OtherPath == "statements/other.pdf"

Paths == {SamplePath, OtherPath}

\* the number of returning calls of parse per statement in one run of the model
MaxCalls == 2

\* the number of uploads the front end handles in one run of the model
MaxUploads == 2

TmpName(k) == "/tmp/tmp" \o ToString(k) \o ".pdf"

TmpPaths == {TmpName(k) : k \in 1..MaxUploads}

AllPaths == Paths \cup TmpPaths

(***************************************************************************)
(* The statements the state machine is run on                              *)
(***************************************************************************)
StatementText ==
    <<"S","t","a","t","e","m","e","n","t"," ","P","e","r","i","o","d",":"," ",
      "0","1","/","0","1","/","2","0","2","4"," ","-"," ",
      "0","1","/","3","1","/","2","0","2","4","\n",
      "D","u","e"," ","D","a","t","e",":"," ","0","2","/","1","5","/","2","0","2","4","\n",
      "*","*","*","*","9","9","9","9","\n",
      "T","o","t","a","l"," ","B","a","l","a","n","c","e",":"," ",
      "$","1",",","2","3","4",".","5","6">>

HeaderRow == << <<"D","a","t","e">>, <<"D","e","s","c","r","i","p","t","i","o","n">>,
                <<"A","m","o","u","n","t">> >>

CoffeeRow == << <<"0","1","/","0","5","/","2","0","2","4">>,
                <<"C","o","f","f","e","e"," ","S","h","o","p">>,
                <<"$","4",".","5","0">> >>

GroceryRow == << <<"0","1","/","1","0","/","2","0","2","4">>,
                 <<"G","r","o","c","e","r","y">>,
                 <<"$","8","8",".","2","0">> >>

StatementTable == <<HeaderRow, CoffeeRow, GroceryRow>>

\* a PDF whose page tree is empty
EmptyPdf == Pdf(<<>>)

\* one page, a card number and nothing else, no table
TextOnlyPdf ==
    Pdf(<< Page(<<"A","c","c","o","u","n","t"," ","e","n","d","i","n","g"," ",
                  "i","n"," ","1","2","3","4">>, <<>>) >>)

\* the one-page statement with its transaction table
StatementPdf == Pdf(<< Page(StatementText, <<StatementTable>>) >>)

\* a first page without text that holds the table, and a second page of text
ScannedPdf ==
    Pdf(<< Page(<<>>, <<StatementTable>>),
           Page(<<"*","*","*","*","9","9","9","9">>, <<>>) >>)

SampleFiles == {NoFile, NotPdf, EmptyPdf, TextOnlyPdf, StatementPdf, ScannedPdf}

UploadedFiles == {NotPdf, EmptyPdf, TextOnlyPdf, StatementPdf}

(***************************************************************************)
(* State                                                                   *)
(***************************************************************************)
VARIABLES
    fs,             \* the file system: path -> file
    pc,             \* where the current call of ChaseParser.parse is
    file_path,      \* the argument of that call
    text, card_last_4, billing_cycle, due_date, total_balance, transactions,
                    \* the locals of parse and of its helpers; a local keeps
                    \* its last value until the code assigns it again
    handles,        \* the number of open pdfplumber document handles
    opens,          \* the number of handles acquired by the current call
    fields_done,    \* the four field extractions of the current call are done
    failed,         \* the current call met a file that could not be read
    error,          \* the exception the current call raised, "" when none
    result,         \* <<>>, or <<d>> for the StatementData d parse returned
    seen,           \* path -> <<>>, or <<d>> for the first d returned for it
    returns,        \* path -> the number of calls of parse that returned for it
    app_pc,         \* where the upload handler of app.py is
    uploaded_file,  \* the bytes of the upload, as the file they make
    tmp,            \* the name of the NamedTemporaryFile, "" before it exists
    tmp_path,       \* the handler's tmp_path, "" for None
    created,        \* the temporary files the current handler run created
    ntmp            \* the number of temporary files created so far

parse_vars == <<pc, file_path, text, card_last_4, billing_cycle, due_date,
                total_balance, transactions, handles, opens, fields_done,
                failed, error, result, seen, returns>>

app_vars == <<app_pc, uploaded_file, tmp, tmp_path, created, ntmp>>

vars == <<fs, parse_vars, app_vars>>

StatementData ==
    [issuer |-> "Chase", card_last_4 |-> card_last_4,
     billing_cycle |-> billing_cycle, due_date |-> due_date,
     total_balance |-> total_balance, transactions |-> transactions]

\* a list that is not started afresh: what the last call left in it
stale_list == transactions

\* "transactions = []"
new_list == <<>>

\* a handle that stays open when its block is left
leak(h) == h

\* the document handle is released when its with block is left
release(h) == h - 1

\* pdfplumber.open raises: no such file, not a PDF, or an I/O error
open_error(file, ioerr) ==
    IF file.kind = "missing" THEN "FileNotFoundError"
    ELSE IF file.kind # "pdf" THEN "PDFSyntaxError"
    ELSE IF ioerr THEN "OSError"
    ELSE ""

InitParse ==
    /\ pc = "idle"
    /\ file_path = ""
    /\ text = <<>>
    /\ card_last_4 = <<>>
    /\ billing_cycle = <<>>
    /\ due_date = <<>>
    /\ total_balance = Zero
    /\ transactions = <<>>
    /\ handles = 0
    /\ opens = 0
    /\ fields_done = FALSE
    /\ failed = FALSE
    /\ error = ""
    /\ result = <<>>
    /\ seen = [p \in AllPaths |-> <<>>]
    /\ returns = [p \in AllPaths |-> 0]

InitApp ==
    /\ app_pc = "idle"
    /\ uploaded_file = NoFile
    /\ tmp = ""
    /\ tmp_path = ""
    /\ created = {}
    /\ ntmp = 0

Init ==
    /\ fs \in {f \in [AllPaths -> SampleFiles] : \A p \in TmpPaths : f[p] = NoFile}
    /\ InitParse
    /\ InitApp

(***************************************************************************)
(* ChaseParser.parse, one action per step                                  *)
(***************************************************************************)
\* a caller enters parse(path)
Call(path) ==
    /\ pc \in {"idle", "returned", "raised"}
    /\ pc' = "open_text"
    /\ file_path' = path
    /\ opens' = 0
    /\ fields_done' = FALSE
    /\ failed' = FALSE
    /\ error' = ""
    /\ result' = <<>>
    /\ UNCHANGED <<fs, text, card_last_4, billing_cycle, due_date,
                   total_balance, transactions, handles, seen, returns>>

\* _extract_text_from_pdf: text = "" and pdfplumber.open succeeds
OpenTextOk ==
    /\ pc = "open_text"
    /\ open_error(fs[file_path], FALSE) = ""
    /\ text' = <<>>
    /\ handles' = handles + 1
    /\ opens' = opens + 1
    /\ pc' = "read_text"
    /\ UNCHANGED <<fs, file_path, card_last_4, billing_cycle, due_date,
                   total_balance, transactions, fields_done, failed, error,
                   result, seen, returns, app_vars>>

\* _extract_text_from_pdf: pdfplumber.open raises
OpenTextFail ==
    /\ pc = "open_text"
    /\ \E ioerr \in BOOLEAN :
          /\ open_error(fs[file_path], ioerr) # ""
          /\ error' = open_error(fs[file_path], ioerr)
    /\ text' = <<>>
    /\ failed' = TRUE
    /\ pc' = "raised"
    /\ UNCHANGED <<fs, file_path, card_last_4, billing_cycle, due_date,
                   total_balance, transactions, handles, opens, fields_done,
                   result, seen, returns, app_vars>>

\* the loop over the pages; leaving the with block releases the handle
ReadTextOk ==
    /\ pc = "read_text"
    /\ text' = text_loop(fs[file_path].pages, 1, text)
    /\ handles' = release(handles)
    /\ pc' = "card"
    /\ UNCHANGED <<fs, file_path, card_last_4, billing_cycle, due_date,
                   total_balance, transactions, opens, fields_done, failed,
                   error, result, seen, returns, app_vars>>

\* a page cannot be read: the with block is left by the exception
ReadTextFail ==
    /\ pc = "read_text"
    /\ handles' = release(handles)
    /\ failed' = TRUE
    /\ error' = "OSError"
    /\ pc' = "raised"
    /\ UNCHANGED <<fs, file_path, text, card_last_4, billing_cycle, due_date,
                   total_balance, transactions, opens, fields_done, result,
                   seen, returns, app_vars>>

ExtractCardLast4 ==
    /\ pc = "card"
    /\ card_last_4' = extract_card_last_4(text)
    /\ pc' = "billing"
    /\ UNCHANGED <<fs, file_path, text, billing_cycle, due_date, total_balance,
                   transactions, handles, opens, fields_done, failed, error,
                   result, seen, returns, app_vars>>

ExtractBillingCycle ==
    /\ pc = "billing"
    /\ billing_cycle' = extract_billing_cycle(text)
    /\ pc' = "due"
    /\ UNCHANGED <<fs, file_path, text, card_last_4, due_date, total_balance,
                   transactions, handles, opens, fields_done, failed, error,
                   result, seen, returns, app_vars>>

ExtractDueDate ==
    /\ pc = "due"
    /\ due_date' = extract_due_date(text)
    /\ pc' = "balance"
    /\ UNCHANGED <<fs, file_path, text, card_last_4, billing_cycle,
                   total_balance, transactions, handles, opens, fields_done,
                   failed, error, result, seen, returns, app_vars>>

ExtractTotalBalance ==
    /\ pc = "balance"
    /\ total_balance' = extract_total_balance(text)
    /\ fields_done' = TRUE
    /\ pc' = "open_tables"
    /\ UNCHANGED <<fs, file_path, text, card_last_4, billing_cycle, due_date,
                   transactions, handles, opens, failed, error, result, seen,
                   returns, app_vars>>

\* _extract_transactions: transactions = [] and pdfplumber.open succeeds
OpenTablesOk ==
    /\ pc = "open_tables"
    /\ open_error(fs[file_path], FALSE) = ""
    /\ transactions' = new_list
    /\ handles' = handles + 1
    /\ opens' = opens + 1
    /\ pc' = "read_tables"
    /\ UNCHANGED <<fs, file_path, text, card_last_4, billing_cycle, due_date,
                   total_balance, fields_done, failed, error, result, seen,
                   returns, app_vars>>

\* a failing second open that is caught and answered with no transactions
OpenTablesFailSwallowed ==
    /\ pc = "open_tables"
    /\ \E ioerr \in BOOLEAN : open_error(fs[file_path], ioerr) # ""
    /\ transactions' = <<>>
    /\ failed' = TRUE
    /\ pc' = "return"
    /\ UNCHANGED <<fs, file_path, text, card_last_4, billing_cycle, due_date,
                   total_balance, handles, opens, fields_done, error, result,
                   seen, returns, app_vars>>

\* _extract_transactions: pdfplumber.open raises
OpenTablesFail ==
    /\ pc = "open_tables"
    /\ \E ioerr \in BOOLEAN :
          /\ open_error(fs[file_path], ioerr) # ""
          /\ error' = open_error(fs[file_path], ioerr)
    /\ transactions' = new_list
    /\ failed' = TRUE
    /\ pc' = "raised"
    /\ UNCHANGED <<fs, file_path, text, card_last_4, billing_cycle, due_date,
                   total_balance, handles, opens, fields_done, result, seen,
                   returns, app_vars>>

\* pdf.pages[0] of a document that has a first page, and the loops over its
\* tables; leaving the with block releases the handle
ReadTablesOk ==
    /\ pc = "read_tables"
    /\ fs[file_path].pages # <<>>
    /\ transactions' = table_loop(fs[file_path].pages[1].tables, 1, transactions)
    /\ handles' = release(handles)
    /\ pc' = "return"
    /\ UNCHANGED <<fs, file_path, text, card_last_4, billing_cycle, due_date,
                   total_balance, opens, fields_done, failed, error, result,
                   seen, returns, app_vars>>

\* pdf.pages[0] of a document without pages raises IndexError
ReadTablesNoPages ==
    /\ pc = "read_tables"
    /\ fs[file_path].pages = <<>>
    /\ handles' = release(handles)
    /\ error' = "IndexError"
    /\ pc' = "raised"
    /\ UNCHANGED <<fs, file_path, text, card_last_4, billing_cycle, due_date,
                   total_balance, transactions, opens, fields_done, failed,
                   result, seen, returns, app_vars>>

\* the first page cannot be read: the with block is left by the exception
ReadTablesFail ==
    /\ pc = "read_tables"
    /\ fs[file_path].pages # <<>>
    /\ handles' = release(handles)
    /\ failed' = TRUE
    /\ error' = "OSError"
    /\ pc' = "raised"
    /\ UNCHANGED <<fs, file_path, text, card_last_4, billing_cycle, due_date,
                   total_balance, transactions, opens, fields_done, result,
                   seen, returns, app_vars>>

\* return StatementData(...)
Return ==
    /\ pc = "return"
    /\ result' = <<StatementData>>
    /\ seen' = IF seen[file_path] = <<>>
               THEN [seen EXCEPT ![file_path] = <<StatementData>>]
               ELSE seen
    /\ returns' = [returns EXCEPT ![file_path] = @ + 1]
    /\ pc' = "returned"
    /\ UNCHANGED <<fs, file_path, text, card_last_4, billing_cycle, due_date,
                   total_balance, transactions, handles, opens, fields_done,
                   failed, error, app_vars>>

\* the steps of parse that read the document successfully
ParseOk ==
    \/ OpenTextOk
    \/ ReadTextOk
    \/ ExtractCardLast4
    \/ ExtractBillingCycle
    \/ ExtractDueDate
    \/ ExtractTotalBalance
    \/ OpenTablesOk
    \/ ReadTablesOk
    \/ Return

\* the steps of parse that raise
ParseRaise ==
    \/ OpenTextFail
    \/ ReadTextFail
    \/ OpenTablesFail
    \/ ReadTablesNoPages
    \/ ReadTablesFail

\* a program holding a parser calls parse on one of the statements
ClientCall ==
    /\ \E path \in Paths : returns[path] < MaxCalls /\ Call(path)
    /\ UNCHANGED app_vars

Next ==
    \/ ClientCall
    \/ ParseOk
    \/ ParseRaise

Spec == Init /\ [][Next]_vars

(***************************************************************************)
(* The upload handler of app.py, one action per step                       *)
(***************************************************************************)
\* a file is uploaded: parser = ChaseParser(), tmp_path = None
Upload ==
    /\ app_pc \in {"idle", "done"}
    /\ ntmp < MaxUploads
    /\ \E file \in UploadedFiles : uploaded_file' = file
    /\ tmp' = ""
    /\ tmp_path' = ""
    /\ created' = {}
    /\ app_pc' = "create"
    /\ UNCHANGED <<fs, parse_vars, ntmp>>

\* tempfile.NamedTemporaryFile(delete=False, suffix=".pdf") creates the file
CreateTempOk ==
    /\ app_pc = "create"
    /\ ntmp' = ntmp + 1
    /\ tmp' = TmpName(ntmp + 1)
    /\ fs' = [fs EXCEPT ![TmpName(ntmp + 1)] = NotPdf]
    /\ created' = created \cup {TmpName(ntmp + 1)}
    /\ app_pc' = "write"
    /\ UNCHANGED <<parse_vars, uploaded_file, tmp_path>>

\* the temporary file cannot be created
CreateTempFail ==
    /\ app_pc = "create"
    /\ app_pc' = "except"
    /\ UNCHANGED <<fs, parse_vars, uploaded_file, tmp, tmp_path, created, ntmp>>

\* tmp.write(uploaded_file.getbuffer()); tmp_path = tmp.name; the with block
\* closes the file
WriteTempOk ==
    /\ app_pc = "write"
    /\ fs' = [fs EXCEPT ![tmp] = uploaded_file]
    /\ tmp_path' = tmp
    /\ app_pc' = "parse"
    /\ UNCHANGED <<parse_vars, uploaded_file, tmp, created, ntmp>>

\* tmp.write raises: the with block closes the file, tmp_path stays None
WriteTempFail ==
    /\ app_pc = "write"
    /\ app_pc' = "except"
    /\ UNCHANGED <<fs, parse_vars, uploaded_file, tmp, tmp_path, created, ntmp>>

\* tmp.write buffers the bytes and tmp_path = tmp.name is assigned, then the
\* close at the end of the with block fails to write them out and raises
CloseTempFail ==
    /\ app_pc = "write"
    /\ tmp_path' = tmp
    /\ app_pc' = "except"
    /\ UNCHANGED <<fs, parse_vars, uploaded_file, tmp, created, ntmp>>

\* data = parser.parse(tmp_path)
AppParse ==
    /\ app_pc = "parse"
    /\ Call(tmp_path)
    /\ app_pc' = "parsing"
    /\ UNCHANGED <<uploaded_file, tmp, tmp_path, created, ntmp>>

\* parse returned
AppParsed ==
    /\ app_pc = "parsing"
    /\ pc = "returned"
    /\ app_pc' = "render"
    /\ UNCHANGED <<fs, parse_vars, uploaded_file, tmp, tmp_path, created, ntmp>>

\* parse raised
AppParseRaised ==
    /\ app_pc = "parsing"
    /\ pc = "raised"
    /\ app_pc' = "except"
    /\ UNCHANGED <<fs, parse_vars, uploaded_file, tmp, tmp_path, created, ntmp>>

\* the summary and the transactions are rendered
RenderOk ==
    /\ app_pc = "render"
    /\ app_pc' = "finally"
    /\ UNCHANGED <<fs, parse_vars, uploaded_file, tmp, tmp_path, created, ntmp>>

\* rendering raises
RenderFail ==
    /\ app_pc = "render"
    /\ app_pc' = "except"
    /\ UNCHANGED <<fs, parse_vars, uploaded_file, tmp, tmp_path, created, ntmp>>

\* except Exception: the error message is shown
Except ==
    /\ app_pc = "except"
    /\ app_pc' = "finally"
    /\ UNCHANGED <<fs, parse_vars, uploaded_file, tmp, tmp_path, created, ntmp>>

\* finally: tmp_path is set and the file exists, os.remove deletes it
FinallyRemove ==
    /\ app_pc = "finally"
    /\ tmp_path # ""
    /\ fs[tmp_path].kind # "missing"
    /\ fs' = [fs EXCEPT ![tmp_path] = NoFile]
    /\ app_pc' = "done"
    /\ UNCHANGED <<parse_vars, uploaded_file, tmp, tmp_path, created, ntmp>>

\* finally: os.remove raises OSError, which is passed over
FinallyRemoveFail ==
    /\ app_pc = "finally"
    /\ tmp_path # ""
    /\ fs[tmp_path].kind # "missing"
    /\ app_pc' = "done"
    /\ UNCHANGED <<fs, parse_vars, uploaded_file, tmp, tmp_path, created, ntmp>>

\* finally: tmp_path is None or the file does not exist, nothing is removed
FinallySkip ==
    /\ app_pc = "finally"
    /\ IF tmp_path = "" THEN TRUE ELSE fs[tmp_path].kind = "missing"
    /\ app_pc' = "done"
    /\ UNCHANGED <<fs, parse_vars, uploaded_file, tmp, tmp_path, created, ntmp>>

Handler ==
    \/ Upload
    \/ CreateTempOk
    \/ CreateTempFail
    \/ WriteTempOk
    \/ WriteTempFail
    \/ CloseTempFail
    \/ AppParse
    \/ AppParsed
    \/ AppParseRaised
    \/ RenderOk
    \/ RenderFail
    \/ Except
    \/ FinallyRemove
    \/ FinallyRemoveFail
    \/ FinallySkip

InitSpecApp ==
    /\ fs = [p \in AllPaths |-> NoFile]
    /\ InitParse
    /\ InitApp

NextApp ==
    \/ Handler
    \/ ParseOk
    \/ ParseRaise

\* the front end: uploads are handled one after the other
SpecApp == InitSpecApp /\ [][NextApp]_vars

(***************************************************************************)
(* The scalar fields over bounded texts: the page text is any              *)
(* concatenation of at most MaxFrags of the fragments below                *)
(***************************************************************************)
MaxFrags == 3

Fragments ==
    { <<"*","*","*","*","5","6","7","8">>,
      <<"e","n","d","i","n","g"," ","i","n"," ","1","2","3","4">>,
      <<"S","t","a","t","e","m","e","n","t"," ","P","e","r","i","o","d",":"," ",
        "0","1","/","0","1"," ","-"," ","0","1","/","3","1">>,
      <<"p","e","r","i","o","d",":"," ","a"," ","-"," ","b","\n">>,
      <<"D","u","e"," ","D","a","t","e",":"," ","0","2","/","1","5","/","2","0","2","4">>,
      <<"d","u","e",":"," ","3","/","5","/","2","0","2","4","\n">>,
      <<"T","o","t","a","l"," ","B","a","l","a","n","c","e",":"," ",
        "$","1",",","2","3","4",".","5","6">>,
      <<"t","o","t","a","l"," ","b","a","l","a","n","c","e",":"," ",",">>,
      <<"c","u","r","r","e","n","t"," ","b","a","l","a","n","c","e",":"," ","5">>,
      <<"b","a","l","a","n","c","e",":"," ","-","3">>,
      <<"e","n","d","<U+0131>","n","g"," ","<U+0130>","n"," ",
        "<U+0663>","2","3","4">> }

RECURSIVE Flatten(_)
Flatten(ss) == IF ss = <<>> THEN <<>> ELSE Head(ss) \o Flatten(Tail(ss))

Texts == {Flatten(ss) : ss \in UNION {[1..n -> Fragments] : n \in 0..MaxFrags}}

OnlySample(file) == [p \in AllPaths |-> IF p = SamplePath THEN file ELSE NoFile]

InitText ==
    /\ fs \in {OnlySample(Pdf(<<Page(t, <<>>)>>)) : t \in Texts}
    /\ InitParse
    /\ InitApp

\* parse is called once on the sample file
FirstCall ==
    /\ pc = "idle"
    /\ Call(SamplePath)
    /\ UNCHANGED app_vars

\* the text extraction and the four field extractions
NextText ==
    \/ FirstCall
    \/ OpenTextOk
    \/ ReadTextOk
    \/ ExtractCardLast4
    \/ ExtractBillingCycle
    \/ ExtractDueDate
    \/ ExtractTotalBalance

SpecText == InitText /\ [][NextText]_vars

(***************************************************************************)
(* The total balance over bounded texts: the page text is any              *)
(* concatenation of at most MaxPieces of the pieces below, which put a     *)
(* sign, a dollar sign, separators and amounts after the balance labels    *)
(***************************************************************************)
MaxPieces == 4

Pieces ==
    { <<"T","o","t","a","l"," ","B","a","l","a","n","c","e",":">>,
      <<"b","a","l","a","n","c","e"," ">>,
      <<"-">>,
      <<"$">>,
      <<"1",",","2">>,
      <<".","5">>,
      <<",">>,
      <<"<U+00A0>","<U+0663>">> }

BalanceTexts == {Flatten(ss) : ss \in UNION {[1..n -> Pieces] : n \in 0..MaxPieces}}

InitBalance ==
    /\ fs \in {OnlySample(Pdf(<<Page(t, <<>>)>>)) : t \in BalanceTexts}
    /\ InitParse
    /\ InitApp

SpecBalance == InitBalance /\ [][NextText]_vars

(***************************************************************************)
(* The transactions over bounded tables: the first page holds a table of   *)
(* at most MaxRows of the rows below, alone or followed by a table of one  *)
(* row and the table of the sample statement                               *)
(***************************************************************************)
MaxRows == 3

GoodDate == <<"0","1","/","0","5">>

GoodDescription == <<"C","o","f","f","e","e">>

AmountCells ==
    { <<"N","/","A">>,
      <<"-","$","5","0",".","0","0">>,
      <<"$","1",",","2","3","4",".","5","6">>,
      <<"1","2","-","3","4">> }

RowInputs ==
    {<<GoodDate, GoodDescription, a>> : a \in AmountCells}
    \cup { HeaderRow,
           << <<" ","D","A","T","E"," ">>, <<"M","e","r","c","h","a","n","t">>,
              <<"$","4",".","5","0">> >>,
           <<GoodDate, GoodDescription>>,
           << <<>>, <<>>, <<>> >>,
           << <<"<U+00A0>","0","1","/","0","5","<U+00A0>">>,
              <<"<U+2003>","S","h","o","p","<U+000B>">>,
              <<"<U+00A0>","1","<U+0663>","2">> >> }

TableInputs == UNION {[1..n -> RowInputs] : n \in 0..MaxRows}

PageTables ==
    {<<t>> : t \in TableInputs}
    \cup {<< t, <<GroceryRow>>, StatementTable >> : t \in TableInputs}

InitRows ==
    /\ fs \in {OnlySample(Pdf(<<Page(<<>>, ts)>>)) : ts \in PageTables}
    /\ InitParse
    /\ InitApp

NextRows ==
    \/ FirstCall
    \/ ParseOk

SpecRows == InitRows /\ [][NextRows]_vars

(***************************************************************************)
(* Properties of the scalar fields                                         *)
(***************************************************************************)
Matches(t, lit, kind) == FirstMatch(t, lit, kind).found

\* where re.search finds the pattern in the text
MatchPos(t, lit, kind) ==
    Min({i \in 1..Len(t) : MatchAt(kind, t, i, lit).found})

\* the first pattern of the list that matches somewhere in the text, 0 if none
FirstMatching(t, patterns, kind) ==
    LET ks == {k \in 1..Len(patterns) : Matches(t, patterns[k], kind)}
    IN  IF ks = {} THEN 0 ELSE Min(ks)

BalanceOf(t, k) ==
    ParseFloat(RemoveCommas(FirstMatch(t, balance_patterns[k], "balance").group1))

\* the first balance pattern that matches with an amount float() accepts
FirstUsable(t) ==
    LET ks == {k \in 1..Len(balance_patterns) :
                  Matches(t, balance_patterns[k], "balance") /\ BalanceOf(t, k).ok}
    IN  IF ks = {} THEN 0 ELSE Min(ks)

\* card number, billing cycle and due date come from the first pattern of
\* their list that matches, wherever the later patterns match
StringFieldsFromFirstMatch ==
    LET c == FirstMatching(text, card_patterns, "card")
        b == FirstMatching(text, billing_patterns, "cycle")
        d == FirstMatching(text, due_patterns, "due")
        m == FirstMatch(text, billing_patterns[b], "cycle")
    IN  /\ card_last_4 = IF c = 0 THEN <<>>
                         ELSE FirstMatch(text, card_patterns[c], "card").group1
        /\ billing_cycle = IF b = 0 THEN <<>>
                           ELSE Strip(m.group1) \o <<" ", "-", " ">> \o Strip(m.group2)
        /\ due_date = IF d = 0 THEN <<>>
                      ELSE FirstMatch(text, due_patterns[d], "due").group1

\* C1 as stated: every scalar field, the total balance included, comes from
\* the first pattern of its list that matches anywhere in the text
C1_FirstMatchingPatternWins ==
    fields_done =>
        /\ StringFieldsFromFirstMatch
        /\ LET k == FirstMatching(text, balance_patterns, "balance")
           IN  IF k = 0 THEN total_balance = Zero
               ELSE BalanceOf(text, k).ok /\ total_balance = BalanceOf(text, k).val

\* C1 amended: card number, billing cycle and due date come from the first
\* pattern of their list that matches anywhere in the text (so the asterisk
\* pattern beats "ending in" in either textual order); the total balance
\* comes from the first pattern that matches with a captured amount that
\* parses as a number, a match without a digit being passed over, and is 0.0
\* when there is none
C1_FirstUsablePatternWins ==
    fields_done =>
        /\ StringFieldsFromFirstMatch
        /\ LET k == FirstUsable(text)
           IN  total_balance = IF k = 0 THEN Zero ELSE BalanceOf(text, k).val

\* "ending in 1234" precedes "****5678" in the text and 5678 is returned; the
\* first balance pattern matches without a digit and is passed over
C1_Witness ==
    /\ fields_done
    /\ Matches(text, card_patterns[1], "card")
    /\ Matches(text, card_patterns[2], "card")
    /\ MatchPos(text, card_patterns[2], "card") < MatchPos(text, card_patterns[1], "card")
    /\ card_last_4 = <<"5", "6", "7", "8">>
    /\ Matches(text, balance_patterns[1], "balance")
    /\ ~BalanceOf(text, 1).ok
    /\ total_balance = Zero

(***************************************************************************)
(* Properties of one call of parse                                         *)
(***************************************************************************)
NoPattern(t, patterns, kind) == FirstMatching(t, patterns, kind) = 0

\* C2 as stated: on every document that can be read, a field none of whose
\* patterns matches takes its default ("" or 0.0), no exception is raised and
\* parse returns a StatementData
C2_DefaultsAndParseSucceeds ==
    /\ fields_done =>
          /\ NoPattern(text, card_patterns, "card") => card_last_4 = <<>>
          /\ NoPattern(text, billing_patterns, "cycle") => billing_cycle = <<>>
          /\ NoPattern(text, due_patterns, "due") => due_date = <<>>
          /\ NoPattern(text, balance_patterns, "balance") => total_balance = Zero
    /\ pc = "raised" => failed

\* C3: once a document could not be opened or read, at the first or at the
\* second open, parse raises and no StatementData is constructed or returned
C3_ReadFailureRaises ==
    /\ failed => pc = "raised" /\ result = <<>>
    /\ pc \in {"return", "returned"} => ~failed
    /\ pc = "raised" => result = <<>>

\* the second open failed after the four fields had been extracted
C3_Witness ==
    /\ pc = "raised"
    /\ failed
    /\ fields_done
    /\ opens = 1
    /\ card_last_4 # <<>>
    /\ result = <<>>

\* C4 as stated: the transaction extraction of a document that has no pages,
\* or no table on its first page, raises nothing and gives no transactions
C4_NoPagesNoTablesIsEmpty ==
    LET pages == fs[file_path].pages
    IN  (/\ opens = 2
         /\ pc \in {"return", "returned", "raised"}
         /\ ~failed
         /\ (pages = <<>> \/ pages[1].tables = <<>>))
        => pc # "raised" /\ transactions = <<>>

\* C8: a call of parse that returns for a file returns what the first call
\* that returned for that file returned, whatever was parsed in between; and
\* two paths that hold the same file give equal results
C8_ParseIsDeterministic ==
    /\ pc = "returned" => result = seen[file_path]
    /\ \A p, q \in Paths :
          (fs[p] = fs[q] /\ seen[p] # <<>> /\ seen[q] # <<>>) => seen[p] = seen[q]

\* the second call on a file returned, after another file was parsed, and
\* there are transactions in the result
C8_Witness ==
    /\ pc = "returned"
    /\ returns[file_path] = 2
    /\ \E q \in Paths : q # file_path /\ returns[q] >= 1 /\ fs[q] # fs[file_path]
    /\ result[1].transactions # <<>>

\* C9: a call acquires at most two handles, the second only after the four
\* fields are extracted, and exactly two when it returns; at most one handle
\* is open at a time, and only while the text or the tables are being read:
\* none is open when parse has returned or raised
C9_HandlesAreScoped ==
    /\ handles \in {0, 1}
    /\ handles = 1 <=> pc \in {"read_text", "read_tables"}
    /\ opens <= 2
    /\ pc = "read_text" => opens = 1
    /\ opens = 2 => fields_done
    /\ pc \in {"read_tables", "return", "returned"} => opens = 2
    /\ pc \in {"idle", "returned", "raised"} => handles = 0

\* reading the first page's tables failed inside the second with block, and
\* the handle is released
C9_Witness ==
    /\ pc = "raised"
    /\ error = "OSError"
    /\ opens = 2
    /\ handles = 0

(***************************************************************************)
(* Properties of the upload handler                                        *)
(***************************************************************************)
\* C10 as stated: when the handler has run its finally block, no temporary
\* file it created exists any more
C10_TempFilesDeleted ==
    app_pc = "done" => \A p \in created : fs[p].kind = "missing"

(***************************************************************************)
(* Properties of the transactions                                          *)
(***************************************************************************)
\* the tables of the first page of the document being parsed
FirstPageTables == fs[file_path].pages[1].tables

TablesRead == pc \in {"return", "returned"}

AtLeastTwoRows(table) == Len(table) >= 2

\* the rows in scan order: table by table, tables of fewer than 2 rows left out
ScanRows(tables) == Flatten(SelectSeq(tables, AtLeastTwoRows))

\* the row has three cells, none blank, none a header name in any letter case
Eligible(row) ==
    /\ Len(row) >= 3
    /\ Lower(Strip(row[1])) \notin date_headers
    /\ Lower(Strip(row[2])) \notin description_headers
    /\ Lower(Strip(row[3])) \notin amount_headers

\* the amount of a cell when every digit, period, comma and minus sign is
\* kept, then the commas are removed
AmountKeepingMinus(cell) ==
    ParseFloat(SelectSeq(Strip(cell), LAMBDA c : IsDigit(c) \/ c \in {".", "-"}))

\* the amount of a cell when a minus sign is kept only in front
AmountLeadingMinus(cell) ==
    ParseFloat(RemoveCommas(amount_clean_leading_minus(Strip(cell))))

NonNumeric(row) == Len(row) >= 3 /\ ~AmountKeepingMinus(row[3]).ok

KeptAsCoded(row) == Eligible(row) /\ AmountKeepingMinus(row[3]).ok

KeptAsStated(row) == Eligible(row) /\ AmountLeadingMinus(row[3]).ok

\* the tables with row r of table t replaced
WithRow(tables, t, r, row) == [tables EXCEPT ![t][r] = row]

\* the sequence without its element i; the sequence itself for i = 0
Without(seq, i) ==
    IF i = 0 THEN seq ELSE SubSeq(seq, 1, i - 1) \o SubSeq(seq, i + 1, Len(seq))

\* C5: a row whose amount cell is not a number leaves no transaction, and the
\* transactions of the other rows are, in the same order, what they are when
\* the row is blank and what they are for any other amount in that cell
C5_RowIsolation ==
    TablesRead =>
        /\ error = ""
        /\ \A t \in 1..Len(FirstPageTables) : \A r \in 1..Len(FirstPageTables[t]) :
              NonNumeric(FirstPageTables[t][r]) =>
                 /\ transactions =
                       page_transactions(WithRow(FirstPageTables, t, r, <<>>))
                 /\ \A v \in AmountCells :
                       LET row == [FirstPageTables[t][r] EXCEPT ![3] = v]
                           alt == page_transactions(WithRow(FirstPageTables, t, r, row))
                       IN  \E i \in 0..Len(alt) : Without(alt, i) = transactions

\* a row with amount "N/A" stands between two rows that became transactions
C5_Witness ==
    /\ pc = "returned"
    /\ \E t \in 1..Len(FirstPageTables) : \E r \in 2..(Len(FirstPageTables[t]) - 1) :
          /\ Len(FirstPageTables[t][r]) >= 3
          /\ FirstPageTables[t][r][3] = <<"N", "/", "A">>
          /\ KeptAsCoded(FirstPageTables[t][r - 1])
          /\ KeptAsCoded(FirstPageTables[t][r + 1])
    /\ Len(transactions) >= 2

\* C6: every transaction has a non-empty trimmed Date and Description and a
\* number as Amount, and neither its Date nor its Description is a header
\* name in any letter case
C6_TransactionsAreWellFormed ==
    \A i \in 1..Len(transactions) :
        LET x == transactions[i]
        IN  /\ x.Date # <<>> /\ Strip(x.Date) = x.Date
            /\ x.Description # <<>> /\ Strip(x.Description) = x.Description
            /\ x.Amount.neg \in BOOLEAN /\ x.Amount.e \in Nat
            /\ \A k \in 1..Len(x.Amount.digits) : x.Amount.digits[k] \in Digits
            /\ Lower(x.Date) \notin date_headers
            /\ Lower(x.Description) \notin description_headers

\* the header row stands in the middle of a table that also holds a header
\* in capitals with a numeric amount, and the table gave transactions
C6_Witness ==
    /\ pc = "returned"
    /\ \E r \in 2..Len(FirstPageTables[1]) : FirstPageTables[1][r] = HeaderRow
    /\ \E r \in 1..Len(FirstPageTables[1]) :
          FirstPageTables[1][r][1] = <<" ", "D", "A", "T", "E", " ">>
    /\ transactions # <<>>

\* the transactions are, in scan order, those of the rows for which Kept
\* holds, each with the amount of its third cell
TransactionsAre(kept, amounts) ==
    /\ Len(transactions) = Len(kept)
    /\ \A i \in 1..Len(kept) :
          /\ transactions[i] = [Date |-> Strip(kept[i][1]),
                                Description |-> Strip(kept[i][2]),
                                Amount |-> amounts[i]]
          /\ kept[i][3] = <<"$", "1", ",", "2", "3", "4", ".", "5", "6">>
                => transactions[i].Amount = Decimal(FALSE, <<"1", "2", "3", "4", "5", "6">>, 2)
          /\ kept[i][3] = <<"-", "$", "5", "0", ".", "0", "0">>
                => transactions[i].Amount = Decimal(TRUE, <<"5", "0">>, 0)

\* C7 as stated: of the amount cell only digits, periods, commas and a
\* leading minus sign are kept, the commas are removed, the rest is parsed,
\* and the row is dropped exactly when that fails
C7_AmountKeepsLeadingMinus ==
    TablesRead =>
        LET kept == SelectSeq(ScanRows(FirstPageTables), KeptAsStated)
        IN  TransactionsAre(kept,
                [i \in 1..Len(kept) |-> AmountLeadingMinus(kept[i][3]).val])

\* C7 amended: of the amount cell the digits, periods, commas and minus
\* signs, wherever they stand, are kept, the commas are removed, the rest is
\* parsed and becomes the Amount ("$1,234.56" gives 1234.56 and "-$50.00"
\* gives -50.00), and the row is dropped exactly when that fails
C7_AmountKeepsEveryMinus ==
    TablesRead =>
        LET kept == SelectSeq(ScanRows(FirstPageTables), KeptAsCoded)
        IN  TransactionsAre(kept,
                [i \in 1..Len(kept) |-> AmountKeepingMinus(kept[i][3]).val])

\* rows with the amounts "-$50.00", "12-34" and "$1,234.56": the second is
\* dropped, the others give -50.00 and 1234.56
C7_Witness ==
    /\ pc = "returned"
    /\ Len(FirstPageTables[1]) = 3
    /\ FirstPageTables[1][1] = <<GoodDate, GoodDescription, <<"-", "$", "5", "0", ".", "0", "0">> >>
    /\ FirstPageTables[1][2] = <<GoodDate, GoodDescription, <<"1", "2", "-", "3", "4">> >>
    /\ FirstPageTables[1][3] =
          <<GoodDate, GoodDescription, <<"$", "1", ",", "2", "3", "4", ".", "5", "6">> >>
    /\ Len(FirstPageTables) = 1
    /\ Len(transactions) = 2
    /\ transactions[1].Amount = Decimal(TRUE, <<"5", "0">>, 0)
    /\ transactions[2].Amount = Decimal(FALSE, <<"1", "2", "3", "4", "5", "6">>, 2)

(***************************************************************************)
(* The sign of the total balance                                           *)
(***************************************************************************)
\* the positions at which a balance label stands in the text
LabelStarts(t, lit) == {i \in 1..Len(t) : LitAt(t, i, lit)}

\* the character that follows the label at i, its separators and an optional
\* dollar sign
AfterLabel(t, i, lit) ==
    LET k == RunEnd(t, i + Len(lit), "[:\\s]")
    IN  IF CharAt(t, k) = "$" THEN CharAt(t, k + 1) ELSE CharAt(t, k)

\* a minus sign stands directly after the label at i, or after its separators,
\* or after the dollar sign that follows them
MinusAfterLabel(t, i, lit) ==
    \/ CharAt(t, i + Len(lit)) = "-"
    \/ CharAt(t, RunEnd(t, i + Len(lit), "[:\\s]")) = "-"
    \/ AfterLabel(t, i, lit) = "-"

\* digits and commas with at most one period
UnsignedAmount(g) ==
    /\ \A k \in 1..Len(g) : IsDigit(g[k]) \/ g[k] \in {",", "."}
    /\ Cardinality({k \in 1..Len(g) : g[k] = "."}) <= 1

\* C11: _extract_total_balance returns a value >= 0 for every text: what a
\* balance pattern captures is made of digits, commas and at most one period,
\* never of a minus sign, and a balance label followed by a minus sign
\* (directly, after the separators or after the dollar sign) is no match of
\* its pattern at that place
C11_BalanceIsNonNegative ==
    fields_done =>
        /\ ~total_balance.neg
        /\ \A p \in 1..Len(balance_patterns) :
              \A i \in LabelStarts(text, balance_patterns[p]) :
                 LET m == MatchAt("balance", text, i, balance_patterns[p])
                 IN  /\ m.found => UnsignedAmount(m.group1)
                     /\ MinusAfterLabel(text, i, balance_patterns[p]) => ~m.found

\* "Total Balance:-balance 1,2": the first label is followed by a minus sign
\* and matches neither as "total balance" nor as "balance", the second label
\* gives 12
C11_Witness ==
    /\ fields_done
    /\ \E i \in LabelStarts(text, balance_patterns[1]) :
          MinusAfterLabel(text, i, balance_patterns[1])
    /\ ~Matches(text, balance_patterns[1], "balance")
    /\ Matches(text, balance_patterns[3], "balance")
    /\ total_balance = Decimal(FALSE, <<"1", "2">>, 0)

====
